---------------------------- MODULE Spec2Model ----------------------------
(***************************************************************************)
(* Thermal manager (src/thermal_manager.py): the control loop of main(),   *)
(* the sensor reader get_ambient_temp(), the override gate                 *)
(* check_manual_override(), the heat workers and the shutdown paths.       *)
(*                                                                         *)
(* Temperatures are kept as the integer millidegrees the zone files hold;  *)
(* the code divides by 1000.0 and compares with TEMP_MIN_C and             *)
(* TEMP_TARGET_C, which is the comparison of the millidegrees with the     *)
(* thresholds times 1000.                                                  *)
(***************************************************************************)
EXTENDS Integers, Sequences, FiniteSets, TLC

\* ------------------------------------------------------------ configuration

TEMP_MIN_C == 0

TEMP_TARGET_C == 5

\* range(5) of the fallback scan
ZONE_SCAN == 5

\* multiprocessing.cpu_count() of the modelled machine
NumWorkers == 1

\* how many thermal zones the modelled machine may have (the others are absent)
MaxZones == 2

Workers == 0 .. (NumWorkers - 1)

\* millidegree values a zone file may hold: below TEMP_MIN_C, at TEMP_MIN_C,
\* just below TEMP_TARGET_C, at TEMP_TARGET_C
ZoneTemps == {-1, 0, 4999, 5000}

ZoneTypes == {"ACPITZ", "x86_pkg_temp"}

\* the type file cannot be read
NoType == "?"

\* sensor_name = None
Unset == "unset"

\* ------------------------------------------------------------ sensor reader

\* A zone whose temperature cannot be had: the temp file is absent, unreadable
\* or does not parse (FileNotFoundError, PermissionError, ValueError).
AbsentZone == [ok |-> FALSE, milli |-> 0, type |-> NoType]

\* One thermal zone: whether int(read(temp file)) succeeds, its value, and the
\* content of the type file (NoType: reading it fails).
Zones ==
  [ok : {TRUE}, milli : ZoneTemps, type : ZoneTypes \cup {NoType}]
    \cup {AbsentZone}

\* The thermal zones of the machine at one reading.
ZoneConfigs == [0 .. (MaxZones - 1) -> Zones]

ZoneAt(z, i) == IF i \in DOMAIN z THEN z[i] ELSE AbsentZone

\* zone_type.lower()
Lower(t) == IF t = "ACPITZ" THEN "acpitz" ELSE t

\* 'acpi' in zone_type.lower()
HasAcpi(t) == Lower(t) \in {"acpitz"}

\* f"ACPI ({zone_type})"
AcpiLabel(t) == IF t = "ACPITZ" THEN "ACPI (ACPITZ)" ELSE "ACPI (acpitz)"

\* f"zone{i}"
ZoneLabel(i) == <<"zone0", "zone1", "zone2", "zone3", "zone4">>[i + 1]

\* the (temp_celsius, zone_type) the fallback loop appends for zone i
FallbackName(z, i) ==
  IF ZoneAt(z, i).type = NoType THEN ZoneLabel(i) ELSE ZoneAt(z, i).type

\* indices whose temperature the fallback loop could read
FallbackIdx(z) == {i \in 0 .. (ZONE_SCAN - 1) : ZoneAt(z, i).ok}

\* min(temps, key=lambda x: x[0]): the first of the coldest entries
Coldest(z) ==
  CHOOSE i \in FallbackIdx(z) :
    \A j \in FallbackIdx(z) :
      \/ ZoneAt(z, i).milli < ZoneAt(z, j).milli
      \/ (ZoneAt(z, i).milli = ZoneAt(z, j).milli /\ i <= j)

NoReading == [ok |-> FALSE, milli |-> 0, sensor |-> Unset]

get_ambient_temp(z) ==
  LET z0 == ZoneAt(z, 0) IN
  IF z0.type # NoType /\ HasAcpi(z0.type) /\ z0.ok
  THEN [ok |-> TRUE, milli |-> z0.milli, sensor |-> AcpiLabel(z0.type)]
  ELSE IF FallbackIdx(z) # {}
       THEN [ok |-> TRUE, milli |-> ZoneAt(z, Coldest(z)).milli,
             sensor |-> FallbackName(z, Coldest(z))]
       ELSE NoReading

\* what get_ambient_temp() can return on the modelled machine
Readings == {get_ambient_temp(z) : z \in ZoneConfigs}

\* ------------------------------------------------------------ override gate

\* The override file: absent, unreadable (open/read raises), or its text as a
\* sequence of tokens; "NL" is whitespace, every other token is non-blank text.
NoFile == <<"<absent>">>

BadFile == <<"<unreadable>">>

OverrideContents ==
  { NoFile, BadFile, <<"NL">>, <<"HEATING_ON", "NL">>, <<"HEATING_OFF">>,
    <<"HEATING_">> }

RECURSIVE LStrip(_)
LStrip(s) == IF s # <<>> /\ Head(s) = "NL" THEN LStrip(Tail(s)) ELSE s

RECURSIVE RStrip(_)
RStrip(s) ==
  IF s # <<>> /\ s[Len(s)] = "NL" THEN RStrip(SubSeq(s, 1, Len(s) - 1)) ELSE s

\* f.read().strip()
Strip(s) == RStrip(LStrip(s))

\* mutant: a file that begins with a truncated command switches heating off
check_manual_override_prefix(f) ==
  IF f = NoFile \/ f = BadFile THEN <<FALSE, FALSE>>
  ELSE IF Strip(f) = <<"HEATING_ON">> THEN <<TRUE, TRUE>>
  ELSE IF Strip(f) \in {<<"HEATING_OFF">>, <<"HEATING_">>}
  THEN <<TRUE, FALSE>>
  ELSE <<FALSE, FALSE>>

\* (override_active, force_heating_on)
check_manual_override(f) ==
  IF f = NoFile \/ f = BadFile THEN <<FALSE, FALSE>>
  ELSE IF Strip(f) = <<"HEATING_ON">> THEN <<TRUE, TRUE>>
  ELSE IF Strip(f) = <<"HEATING_OFF">> THEN <<TRUE, FALSE>>
  ELSE <<FALSE, FALSE>>


\* ------------------------------------------------------------ estimator values

\* A value held by an attribute of the estimator, by a key of the calibration
\* record or passed as an argument (src/ambient_temp_estimator.py): a number
\* (the exact rational n/d in lowest terms), float('nan'), None, a JSON
\* boolean, or the marker of a key the JSON object does not have.
RECURSIVE GCD(_, _)
GCD(a, b) == IF b = 0 THEN a ELSE GCD(b, a % b)

Abs(n) == IF n < 0 THEN -n ELSE n

Q(n, d) ==
  LET g == GCD(Abs(n), Abs(d))
      s == IF d < 0 THEN -1 ELSE 1
  IN [k |-> "num", n |-> (s * n) \div g, d |-> (s * d) \div g]

I(n) == Q(n, 1)

NaN == [k |-> "nan", n |-> 0, d |-> 1]

None == [k |-> "none", n |-> 0, d |-> 1]

Missing == [k |-> "missing", n |-> 0, d |-> 1]

Bool(t) == [k |-> "bool", n |-> IF t THEN 1 ELSE 0, d |-> 1]

IsNum(v) == v.k = "num"

\* np.isnan(v)
IsNaN(v) == v.k = "nan"

\* Python truth of a value: "if not self.calibrated"
Truthy(v) == v.k \in {"num", "bool"} /\ v.n # 0

QAdd(a, b) == Q(a.n * b.d + b.n * a.d, a.d * b.d)

QSub(a, b) == Q(a.n * b.d - b.n * a.d, a.d * b.d)

QMul(a, b) == Q(a.n * b.n, a.d * b.d)

QDiv(a, b) == Q(a.n * b.d, a.d * b.n)

QLt(a, b) == a.n * b.d < b.n * a.d

QLe(a, b) == a.n * b.d <= b.n * a.d

\* __init__: the attributes before load_calibration() runs
Defaults ==
  [R_th |-> None, b |-> None, sigma |-> I(3), calibrated |-> Bool(FALSE),
   calibration_time |-> None, n_samples |-> I(0), tau |-> None]

\* The calibration file: absent, present but not JSON, JSON that is not an
\* object, or an object (rec: the value of each key, Missing for no key).
NoRecord == [Defaults EXCEPT !.sigma = Missing, !.calibrated = Missing,
                             !.n_samples = Missing, !.R_th = Missing,
                             !.b = Missing, !.calibration_time = Missing,
                             !.tau = Missing]

Disk(kind, rec) == [kind |-> kind, rec |-> rec]

AbsentFile == Disk("absent", NoRecord)

\* The outcome of a call: the method, its arguments, how it ended ("ok" or the
\* exception) and what it returned.
Call(op, args, status, out) ==
  [op |-> op, args |-> args, status |-> status, out |-> out]

NoCall == Call("none", <<>>, "ok", <<>>)

\* ------------------------------------------------------------ state

VARIABLES
  pc,                \* where the controller process is in main()
  currently_heating, \* main(): the controller state, TRUE = HEATING
  heating_active,    \* the shared multiprocessing.Value('i'): 0 or 1
  sensor_name,       \* main(): the latched sensor name, Unset = None
  temp,              \* main(): the last result of get_ambient_temp()
  overrideFile,      \* the content of OVERRIDE_FILE
  wpc,               \* where each heat worker process is
  termSent,          \* the workers terminate() was called on
  cycLog,            \* the controller's log() lines since the last reading began
  stopCause,         \* what stops the controller: none, signal, error, both
  workerWrote,       \* whether a worker process assigned heating_active.value
  lastTrans,         \* the last HEATING ON:/HEATING OFF: line of the log
  logTail,           \* what get_status() finds in LOG_FILE before cycLog
  est,               \* AmbientTempEstimator: the attributes of the object
  disk,              \* AmbientTempEstimator: the calibration file
  ret,               \* the outcome of the last estimator call
  again,             \* whether that call repeated the call before it
  clock              \* datetime.now(), in ticks

ctlVars ==
  << pc, currently_heating, heating_active, sensor_name, temp, overrideFile,
     wpc, termSent, cycLog, stopCause, workerWrote, lastTrans, logTail >>

estVars == << est, disk, ret, again, clock >>

vars == << ctlVars, estVars >>

\* One line of the log: its leading words, and for a status line the state
\* word, the (OVERRIDE) tag and the printed sensor name.
Line(kind, state, override, sensor) ==
  [kind |-> kind, state |-> state, override |-> override, sensor |-> sensor]

\* positions of the controller inside the try statement of main()
InLoop == {"read", "check", "sleep"}

\* positions of a live worker inside heat_worker's loop
Running == {"flag", "busy", "sleep"}

Started(w) == wpc[w] # "unstarted"

Gone(w) == wpc[w] \in {"unstarted", "exited"}

\* A SIGTERM/SIGINT reaching a worker. main() installs signal_handler before it
\* starts the workers, and a forked child (the start method on Linux, where the
\* thermal zone files live) keeps its parent's handlers: the worker runs
\* signal_handler. A signal that reaches a worker already in the handler runs
\* the handler again, which is the same position.
Deliver(s) == IF s \in {"unstarted", "exited"} THEN s ELSE "sig"

\* ------------------------------------------------------------ log file

\* get_status: lines = f.readlines()[-10:]
TAIL_LINES == 10

\* log(): "[%Y-%m-%d %H:%M:%S] " before the message
Stamp == << "[", "date", " ", "hh", ":", "mm", ":", "ss", "]", " " >>

\* the temperature part of a line: Temp=..C (..F)
TempText == << "Temp=", "c", " ", "(", "f", ")" >>

\* the message each log() call of main() formats, as the words and the
\* punctuation it is made of
Message(l) ==
  CASE l.kind = "WARNING" ->
         << "WARNING", ":", " ", "Could not read temperature sensor" >>
    [] l.kind = "USING" ->
         << "Using temperature sensor", ":", " ", l.sensor >>
    [] l.kind = "ON" ->
         << "HEATING", " ", "ON", ":", " " >>
           \o (IF l.override THEN << "MANUAL OVERRIDE", " ", "-", " " >>
               ELSE << >>)
           \o TempText
           \o (IF l.override THEN << >> ELSE << " ", "-", " ", "Below" >>)
    [] l.kind = "OFF" ->
         << "HEATING", " ", "OFF", ":", " " >>
           \o (IF l.override THEN << "MANUAL OVERRIDE", " ", "-", " " >>
               ELSE << >>)
           \o TempText
           \o (IF l.override THEN << >> ELSE << " ", "-", " ", "Reached" >>)
    [] l.kind = "STATUS" ->
         << l.state >>
           \o (IF l.override THEN << " ", "(", "OVERRIDE", ")" >> ELSE << >>)
           \o << ":", " " >> \o TempText \o << " ", "[", l.sensor, "]" >>
    [] l.kind = "ERROR" -> << "ERROR", ":", " ", "e" >>
    [] l.kind = "SHUTDOWN" ->
         << "Received shutdown signal, cleaning up..." >>
    [] l.kind = "STOPPED" -> << "=== Thermal Manager Stopped ===" >>

\* one line of LOG_FILE
Text(l) == Stamp \o Message(l)

\* pattern in line
Contains(line, pattern) ==
  \E i \in 0 .. Len(line) - Len(pattern) :
    SubSeq(line, i + 1, i + Len(pattern)) = pattern

\* get_status, the body of its scan for one line: the status the line sets,
\* "none" when the scan goes on to the line before it
Tells(line) ==
  IF \/ Contains(line, << "HEATING", " ", "ON", ":" >>)
     \/ Contains(line, << "HEATING", ":" >>)
  THEN "HEATING"
  ELSE IF \/ Contains(line, << "HEATING", " ", "OFF", ":" >>)
          \/ Contains(line, << "IDLE", ":" >>)
          \/ Contains(line, << "IDLE", " ", "(" >>)
  THEN "IDLE"
  ELSE "none"

\* The log file before the lines of cycLog, as far as a scan of its tail
\* depends on it: the status its newest telling line sets and the number of
\* lines written after that line; a telling line with TAIL_LINES lines or
\* more after it is out of every later scan, as is a file without one.
NoTelling == [heating |-> "UNKNOWN", behind |-> TAIL_LINES]

\* os.path.exists(self.log_file) and os.access(self.log_file, os.R_OK) fails
Unreadable == [heating |-> "UNREADABLE", behind |-> 0]

\* with open(LOG_FILE, 'a'): f.write(log_msg + "\n"), for one line
Write(t, l) ==
  IF Tells(Text(l)) # "none" THEN [heating |-> Tells(Text(l)), behind |-> 0]
  ELSE IF t.behind + 1 >= TAIL_LINES THEN NoTelling
  ELSE [t EXCEPT !.behind = @ + 1]

RECURSIVE Written(_, _)
\* the file after the lines of one cycle
Written(t, lines) ==
  IF t = Unreadable \/ lines = << >> THEN t
  ELSE Written(Write(t, Head(lines)), Tail(lines))

RECURSIVE Scan(_, _, _)
\* get_status: for line in reversed(lines), over the i newest lines not yet
\* looked at of this cycle and then the file before them, with seen lines
\* of the TAIL_LINES already passed
Scan(t, recent, seen) ==
  IF seen >= TAIL_LINES THEN "UNKNOWN"
  ELSE IF recent = << >>
  THEN IF t.behind + seen < TAIL_LINES THEN t.heating ELSE "UNKNOWN"
  ELSE IF Tells(Text(recent[Len(recent)])) # "none"
  THEN Tells(Text(recent[Len(recent)]))
  ELSE Scan(t, SubSeq(recent, 1, Len(recent) - 1), seen + 1)

\* ThermalDashboard.get_status()['heating']
get_status(t, recent) ==
  IF t = Unreadable THEN "UNKNOWN" ELSE Scan(t, recent, 0)

\* ------------------------------------------------------------ start

Init ==
  /\ pc = "spawn"
  /\ currently_heating = FALSE
  /\ heating_active = 0
  /\ sensor_name = Unset
  /\ temp = NoReading
  /\ overrideFile = NoFile
  /\ wpc = [w \in Workers |-> "unstarted"]
  /\ termSent = [w \in Workers |-> FALSE]
  /\ cycLog = <<>>
  /\ stopCause = "none"
  /\ workerWrote = FALSE
  /\ lastTrans = "none"
  /\ logTail = Unreadable
  /\ est = Defaults
  /\ disk = AbsentFile
  /\ ret = NoCall
  /\ again = FALSE
  /\ clock = 0

\* ------------------------------------------------------------ controller

\* mutant: the workers are not daemonic
WorkerDaemon_off == FALSE

\* p.daemon = True
WorkerDaemon == TRUE

\* for i in range(cores_to_use): Process(...).start()
StartWorker ==
  /\ pc = "spawn"
  /\ \E w \in Workers :
       /\ wpc[w] = "unstarted"
       /\ \A v \in Workers : v < w => wpc[v] # "unstarted"
       /\ wpc' = [wpc EXCEPT ![w] = "flag"]
  /\ UNCHANGED << estVars, logTail, lastTrans,
                  pc, currently_heating, heating_active, sensor_name, temp,
                  overrideFile, termSent, cycLog, stopCause, workerWrote >>

\* the last worker is started
SpawnDone ==
  /\ pc = "spawn"
  /\ \A w \in Workers : wpc[w] # "unstarted"
  /\ pc' = "started"
  /\ UNCHANGED << estVars, logTail, lastTrans,
                  currently_heating, heating_active, sensor_name, temp,
                  overrideFile, wpc, termSent, cycLog, stopCause, workerWrote >>

\* log("Started ..."); currently_heating = False; sensor_name = None; try:
EnterLoop ==
  /\ pc = "started"
  /\ pc' = "read"
  /\ currently_heating' = FALSE
  /\ sensor_name' = Unset
  /\ UNCHANGED << estVars, logTail, lastTrans,
                  heating_active, temp, overrideFile, wpc, termSent, cycLog,
                  stopCause, workerWrote >>

\* mutant: a failed reading leaves the loop
AfterRead_fatal(r) == IF r.ok THEN "check" ELSE "finally"

\* if temp is None: log; time.sleep(CHECK_INTERVAL); continue
AfterRead(r) == IF r.ok THEN "check" ELSE "sleep"

\* mutant: sensor_name follows the sensor of every reading
Latch_follow(name, sensor) == sensor

\* if sensor_name is None: sensor_name = sensor
Latch(name, sensor) == IF name = Unset THEN sensor ELSE name

\* temp, sensor = get_ambient_temp(); the None branch; the sensor_name latch
ReadSensor ==
  /\ pc = "read"
  /\ \E r \in Readings :
       /\ temp' = r
       /\ IF ~r.ok
          THEN /\ cycLog' = << Line("WARNING", "-", FALSE, "-") >>
               /\ pc' = AfterRead(r)
               /\ UNCHANGED sensor_name
          ELSE /\ sensor_name' = Latch(sensor_name, r.sensor)
               /\ cycLog' = IF sensor_name = Unset
                            THEN << Line("USING", "-", FALSE, r.sensor) >>
                            ELSE << >>
               /\ pc' = AfterRead(r)
  /\ UNCHANGED << estVars, logTail, lastTrans,
                  currently_heating, heating_active, overrideFile, wpc,
                  termSent, stopCause, workerWrote >>

\* mutant: the start threshold is inclusive
TooCold_le(t) == t <= TEMP_MIN_C * 1000

\* temp < TEMP_MIN_C
TooCold(t) == t < TEMP_MIN_C * 1000

\* mutant: heating stops at the start threshold (no dead band)
WarmEnough_low(t) == t >= TEMP_MIN_C * 1000

\* temp >= TEMP_TARGET_C
WarmEnough(t) == t >= TEMP_TARGET_C * 1000

StateWord(h) == IF h THEN "HEATING" ELSE "IDLE"

\* mutant: the override OFF branch forgets the shared flag
ControlStep_offKeepsFlag(heating, t, ov, sname) ==
  IF ov[1] /\ ~ov[2] /\ heating
  THEN [write |-> "keep", heating |-> FALSE,
        line |-> Line("OFF", "-", TRUE, "-")]
  ELSE IF \/ (ov[1] /\ ov[2] /\ ~heating)
          \/ (~ov[1] /\ t < TEMP_MIN_C * 1000 /\ ~heating)
  THEN [write |-> "on", heating |-> TRUE,
        line |-> Line("ON", "-", ov[1], "-")]
  ELSE IF ~ov[1] /\ t >= TEMP_TARGET_C * 1000 /\ heating
  THEN [write |-> "off", heating |-> FALSE,
        line |-> Line("OFF", "-", FALSE, "-")]
  ELSE [write |-> "keep", heating |-> heating,
        line |-> Line("STATUS", StateWord(heating), ov[1], sname)]

\* mutant: a transition cycle logs the status line instead of its own line
ControlStep_statusOnly(heating, t, ov, sname) ==
  LET h == IF ov[1] THEN ov[2]
           ELSE IF t < TEMP_MIN_C * 1000 THEN TRUE
           ELSE IF t >= TEMP_TARGET_C * 1000 THEN FALSE
           ELSE heating
  IN [write |-> IF h = heating THEN "keep" ELSE IF h THEN "on" ELSE "off",
      heating |-> h,
      line |-> Line("STATUS", StateWord(h), ov[1], sname)]

\* mutant: an override ON cycle logs its transition line while already heating
ControlStep_onAgain(heating, t, ov, sname) ==
  IF ov[1] /\ ov[2]
  THEN [write |-> IF heating THEN "keep" ELSE "on", heating |-> TRUE,
        line |-> Line("ON", "-", TRUE, "-")]
  ELSE IF (ov[1] \/ t >= TEMP_TARGET_C * 1000) /\ heating
  THEN [write |-> "off", heating |-> FALSE,
        line |-> Line("OFF", "-", ov[1], "-")]
  ELSE IF ~ov[1] /\ t < TEMP_MIN_C * 1000 /\ ~heating
  THEN [write |-> "on", heating |-> TRUE,
        line |-> Line("ON", "-", FALSE, "-")]
  ELSE [write |-> "keep", heating |-> heating,
        line |-> Line("STATUS", StateWord(heating), ov[1], sname)]

\* mutant: the status line of an override cycle carries no (OVERRIDE) tag
ControlStep_noTag(heating, t, ov, sname) ==
  LET h == IF ov[1] THEN ov[2]
           ELSE IF t < TEMP_MIN_C * 1000 THEN TRUE
           ELSE IF t >= TEMP_TARGET_C * 1000 THEN FALSE
           ELSE heating
  IN IF h # heating
     THEN [write |-> IF h THEN "on" ELSE "off", heating |-> h,
           line |-> Line(IF h THEN "ON" ELSE "OFF", "-", ov[1], "-")]
     ELSE [write |-> "keep", heating |-> heating,
           line |-> Line("STATUS", StateWord(heating), FALSE, sname)]

\* mutant: without override a HEATING controller stays HEATING, as if the
\* last override ON were still in force
ControlStep_holdOn(heating, t, ov, sname) ==
  IF ov[1] /\ ov[2] # heating
  THEN [write |-> IF ov[2] THEN "on" ELSE "off", heating |-> ov[2],
        line |-> Line(IF ov[2] THEN "ON" ELSE "OFF", "-", TRUE, "-")]
  ELSE IF ~ov[1] /\ ~heating /\ t < TEMP_MIN_C * 1000
  THEN [write |-> "on", heating |-> TRUE,
        line |-> Line("ON", "-", FALSE, "-")]
  ELSE [write |-> "keep", heating |-> heating,
        line |-> Line("STATUS", StateWord(heating), ov[1], sname)]

\* The body of one cycle after a successful reading: what it assigns to
\* heating_active.value ("keep": nothing), the new currently_heating, and the
\* line it logs.
ControlStep(heating, t, ov, sname) ==
  IF ov[1]
  THEN IF ov[2] /\ ~heating
       THEN [write |-> "on", heating |-> TRUE,
             line |-> Line("ON", "-", TRUE, "-")]
       ELSE IF ~ov[2] /\ heating
       THEN [write |-> "off", heating |-> FALSE,
             line |-> Line("OFF", "-", TRUE, "-")]
       ELSE [write |-> "keep", heating |-> heating,
             line |-> Line("STATUS", StateWord(heating), TRUE, sname)]
  ELSE IF TooCold(t) /\ ~heating
       THEN [write |-> "on", heating |-> TRUE,
             line |-> Line("ON", "-", FALSE, "-")]
       ELSE IF WarmEnough(t) /\ heating
       THEN [write |-> "off", heating |-> FALSE,
             line |-> Line("OFF", "-", FALSE, "-")]
       ELSE [write |-> "keep", heating |-> heating,
             line |-> Line("STATUS", StateWord(heating), FALSE, sname)]

\* override check, transition, log line of one cycle
Decide ==
  /\ pc = "check"
  /\ LET c == ControlStep(currently_heating, temp.milli,
                          check_manual_override(overrideFile), sensor_name)
     IN /\ currently_heating' = c.heating
        /\ heating_active' = CASE c.write = "on" -> 1
                               [] c.write = "off" -> 0
                               [] OTHER -> heating_active
        /\ cycLog' = Append(cycLog, c.line)
        /\ lastTrans' = IF c.line.kind \in {"ON", "OFF"} THEN c.line.kind
                        ELSE lastTrans
  /\ pc' = "sleep"
  /\ UNCHANGED << estVars, logTail,
                  sensor_name, temp, overrideFile, wpc, termSent, stopCause,
                  workerWrote >>

\* time.sleep(CHECK_INTERVAL), then the next iteration begins; the lines the
\* cycle wrote to LOG_FILE are in the file's tail from here on.
Sleep ==
  /\ pc = "sleep"
  /\ pc' = "read"
  /\ cycLog' = << >>
  /\ logTail' = Written(logTail, cycLog)
  /\ UNCHANGED << estVars, lastTrans,
                  currently_heating, heating_active, sensor_name, temp,
                  overrideFile, wpc, termSent, stopCause, workerWrote >>

\* An exception that the loop body does not handle reaches "except Exception".
RaiseError ==
  /\ pc \in {"read", "check"}
  /\ pc' = "except"
  /\ stopCause' = "error"
  /\ UNCHANGED << estVars, logTail, lastTrans,
                  currently_heating, heating_active, sensor_name, temp,
                  overrideFile, wpc, termSent, cycLog, workerWrote >>

\* except Exception: log; heating_active.value = 0; raise
ExceptClause ==
  /\ pc = "except"
  /\ heating_active' = 0
  /\ UNCHANGED workerWrote
  /\ cycLog' = Append(cycLog, Line("ERROR", "-", FALSE, "-"))
  /\ pc' = "finally"
  /\ UNCHANGED << estVars, logTail, lastTrans,
                  currently_heating, sensor_name, temp, overrideFile, wpc,
                  termSent, stopCause >>

\* mutant: signal_handler leaves the flag as it is
HandlerFlag_keep(f) == f

\* signal_handler's assignment: heating_active.value = 0
HandlerFlag(f) == 0

\* SIGINT/SIGTERM reaches the controller: signal_handler logs, clears the flag
\* and sleeps one second. Inside the try statement the SystemExit it raises
\* runs the finally clause; before the try statement, or when it interrupts
\* the finally clause itself, it does not (the rest of the clause is skipped).
SignalMain ==
  /\ pc \in {"spawn", "started", "read", "check", "sleep", "except",
             "finally", "terminate"}
  /\ heating_active' = HandlerFlag(heating_active)
  /\ UNCHANGED workerWrote
  /\ cycLog' = Append(cycLog, Line("SHUTDOWN", "-", FALSE, "-"))
  /\ stopCause' = CASE stopCause = "none" -> "signal"
                     [] stopCause = "error" -> "both"
                     [] OTHER -> stopCause
  /\ pc' = IF pc \in InLoop \cup {"except"} THEN "sig_try" ELSE "sig_out"
  /\ UNCHANGED << estVars, logTail, lastTrans,
                  currently_heating, sensor_name, temp, overrideFile, wpc,
                  termSent >>

\* time.sleep(1); sys.exit(0)
HandlerExit ==
  /\ pc \in {"sig_try", "sig_out"}
  /\ pc' = IF pc = "sig_try" THEN "finally" ELSE "atexit"
  /\ UNCHANGED << estVars, logTail, lastTrans,
                  currently_heating, heating_active, sensor_name, temp,
                  overrideFile, wpc, termSent, cycLog, stopCause, workerWrote >>

\* finally: heating_active.value = 0
FinallyClear ==
  /\ pc = "finally"
  /\ heating_active' = 0
  /\ UNCHANGED workerWrote
  /\ pc' = "terminate"
  /\ UNCHANGED << estVars, logTail, lastTrans,
                  currently_heating, sensor_name, temp, overrideFile, wpc,
                  termSent, cycLog, stopCause >>

\* for p in workers: p.terminate()
TerminateWorker ==
  /\ pc = "terminate"
  /\ \E w \in Workers :
       /\ ~termSent[w]
       /\ \A v \in Workers : v < w => termSent[v]
       /\ termSent' = [termSent EXCEPT ![w] = TRUE]
       /\ wpc' = [wpc EXCEPT ![w] = Deliver(wpc[w])]
  /\ UNCHANGED << estVars, logTail, lastTrans,
                  pc, currently_heating, heating_active, sensor_name, temp,
                  overrideFile, cycLog, stopCause, workerWrote >>

\* log("=== Thermal Manager Stopped ==="); the pending exception goes on
FinallyLog ==
  /\ pc = "terminate"
  /\ \A w \in Workers : termSent[w]
  /\ cycLog' = Append(cycLog, Line("STOPPED", "-", FALSE, "-"))
  /\ pc' = "atexit"
  /\ UNCHANGED << estVars, logTail, lastTrans,
                  currently_heating, heating_active, sensor_name, temp,
                  overrideFile, wpc, termSent, stopCause, workerWrote >>

\* Interpreter exit: multiprocessing terminates the daemonic children ...
AtExitTerminate ==
  /\ pc = "atexit"
  /\ termSent' = [w \in Workers |->
                    termSent[w] \/ (WorkerDaemon /\ Started(w))]
  /\ wpc' = [w \in Workers |->
               IF WorkerDaemon THEN Deliver(wpc[w]) ELSE wpc[w]]
  /\ pc' = "join"
  /\ UNCHANGED << estVars, logTail, lastTrans,
                  currently_heating, heating_active, sensor_name, temp,
                  overrideFile, cycLog, stopCause, workerWrote >>

\* ... and joins every child before the process ends.
AtExitJoin ==
  /\ pc = "join"
  /\ \A w \in Workers : Gone(w)
  /\ pc' = "exited"
  /\ UNCHANGED << estVars, logTail, lastTrans,
                  currently_heating, heating_active, sensor_name, temp,
                  overrideFile, wpc, termSent, cycLog, stopCause, workerWrote >>

\* ------------------------------------------------------------ heat workers

\* mutant: a worker that finds the flag off leaves its loop
WorkerBranch_break(f) == IF f # 0 THEN "busy" ELSE "exited"

\* mutant: a worker computes in every iteration, whatever the flag holds
WorkerBranch_always(f) == IF f # 0 THEN "busy" ELSE "busy"

\* heat_worker, inside "while True": the busy loop when the flag is set, else
\* time.sleep(1); neither branch leaves the loop
WorkerBranch(f) == IF f # 0 THEN "busy" ELSE "sleep"

\* heat_worker: if heating_flag.value:
WorkerReadFlag(w) ==
  /\ wpc[w] = "flag"
  /\ wpc' = [wpc EXCEPT ![w] = WorkerBranch(heating_active)]
  /\ UNCHANGED << estVars, logTail, lastTrans,
                  pc, currently_heating, heating_active, sensor_name, temp,
                  overrideFile, termSent, cycLog, stopCause, workerWrote >>

\* the busy loop ran for work_time
WorkerWorkDone(w) ==
  /\ wpc[w] = "busy"
  /\ wpc' = [wpc EXCEPT ![w] = "sleep"]
  /\ UNCHANGED << estVars, logTail, lastTrans,
                  pc, currently_heating, heating_active, sensor_name, temp,
                  overrideFile, termSent, cycLog, stopCause, workerWrote >>

\* time.sleep(sleep_time) or time.sleep(1) returned
WorkerWake(w) ==
  /\ wpc[w] = "sleep"
  /\ wpc' = [wpc EXCEPT ![w] = "flag"]
  /\ UNCHANGED << estVars, logTail, lastTrans,
                  pc, currently_heating, heating_active, sensor_name, temp,
                  overrideFile, termSent, cycLog, stopCause, workerWrote >>

\* A signal sent to a worker from outside the controller (kill, the service
\* manager, the terminal's process group).
SignalWorker(w) ==
  /\ wpc[w] \in Running
  /\ wpc' = [wpc EXCEPT ![w] = Deliver(wpc[w])]
  /\ UNCHANGED << estVars, logTail, lastTrans,
                  pc, currently_heating, heating_active, sensor_name, temp,
                  overrideFile, termSent, cycLog, stopCause, workerWrote >>

\* signal_handler running in a worker: log; heating_active.value = 0;
\* time.sleep(1); sys.exit(0)
WorkerHandler(w) ==
  /\ wpc[w] = "sig"
  /\ heating_active' = HandlerFlag(heating_active)
  /\ workerWrote' = TRUE
  /\ wpc' = [wpc EXCEPT ![w] = "exited"]
  /\ UNCHANGED << estVars, logTail, lastTrans,
                  pc, currently_heating, sensor_name, temp, overrideFile,
                  termSent, cycLog, stopCause >>

\* ------------------------------------------------------------ environment

\* The override file is overwritten or removed by its writer (the dashboard, a
\* shell). The controller reads the file once per cycle, in Decide, so a write
\* at any other moment is seen as a write before the cycle begins.
WriteOverride ==
  /\ pc = "read"
  /\ \E c \in OverrideContents :
       /\ c # overrideFile
       /\ overrideFile' = c
  /\ UNCHANGED << estVars, logTail, lastTrans,
                  pc, currently_heating, heating_active, sensor_name, temp,
                  wpc, termSent, cycLog, stopCause, workerWrote >>

Next ==
  \/ StartWorker
  \/ SpawnDone
  \/ EnterLoop
  \/ ReadSensor
  \/ Decide
  \/ Sleep
  \/ RaiseError
  \/ ExceptClause
  \/ SignalMain
  \/ HandlerExit
  \/ FinallyClear
  \/ TerminateWorker
  \/ FinallyLog
  \/ AtExitTerminate
  \/ AtExitJoin
  \/ WriteOverride
  \/ \E w \in Workers :
       \/ WorkerReadFlag(w)
       \/ WorkerWorkDone(w)
       \/ WorkerWake(w)
       \/ SignalWorker(w)
       \/ WorkerHandler(w)

Spec == Init /\ [][Next]_vars

\* ------------------------------------------------------------ properties

\* what check_manual_override() returns for the file as it is in this cycle
Ov == check_manual_override(overrideFile)

OverrideOn == Ov = <<TRUE, TRUE>>

OverrideOff == Ov = <<TRUE, FALSE>>

\* the cycle's body has run and the controller is at time.sleep(CHECK_INTERVAL)
CycleEnd == pc = "sleep"

\* the step that completes a cycle whose reading succeeded
DecideStep == pc = "check" /\ pc' = "sleep"

\* the step that completes a cycle whose reading failed
SkipStep == pc = "read" /\ pc' = "sleep"

InBand(t) == TEMP_MIN_C * 1000 < t /\ t < TEMP_TARGET_C * 1000

\* the lines of a log that tell the state: status and transition lines
StateLines(l) == {i \in 1 .. Len(l) : l[i].kind \in {"STATUS", "ON", "OFF"}}

LastLine == cycLog[Len(cycLog)]

\* C1: a cycle with a successful reading T and no override ends in HEATING if
\* T < TEMP_MIN, in IDLE if T >= TEMP_TARGET, and in the state it began in if
\* TEMP_MIN <= T < TEMP_TARGET.
C1_Hysteresis ==
  [][ (DecideStep /\ ~Ov[1]) =>
        currently_heating' =
          (IF temp.milli < TEMP_MIN_C * 1000 THEN TRUE
           ELSE IF temp.milli >= TEMP_TARGET_C * 1000 THEN FALSE
           ELSE currently_heating) ]_vars

\* C1 witness: a cycle without override read T >= TEMP_TARGET while HEATING and
\* ended IDLE.
C1_Witness ==
  /\ CycleEnd /\ temp.ok /\ ~Ov[1]
  /\ temp.milli >= TEMP_TARGET_C * 1000
  /\ ~currently_heating
  /\ Len(cycLog) > 0 /\ LastLine.kind = "OFF"

C3_OverrideOnHeats ==
  [][ (DecideStep /\ OverrideOn) =>
        (currently_heating' /\ heating_active' = 1) ]_vars

C5_FlagMirrorsState ==
  /\ [](pc \in {"spawn", "started"} =>
          (heating_active = 0 /\ ~currently_heating))
  /\ [][ (DecideStep \/ SkipStep) =>
           ((heating_active' = 1) <=> currently_heating') ]_vars

\* C6: no worker process ever assigns the shared flag.
C6_OnlyControllerWrites == ~workerWrote

C8_StopCleansUp ==
  /\ pc \in {"join", "exited"} =>
       /\ heating_active = 0
       /\ \A w \in Workers : Started(w) => (termSent[w] \/ wpc[w] = "exited")
  /\ pc = "exited" => \A w \in Workers : Gone(w)

\* C8 witness: the controller ended on the error path while HEATING; the flag
\* is off and the workers have exited.
C8_Witness ==
  /\ pc = "exited" /\ stopCause = "error"
  /\ currently_heating /\ heating_active = 0
  /\ \A w \in Workers : wpc[w] = "exited"

C10_Original ==
  CycleEnd =>
    Cardinality({i \in 1 .. Len(cycLog) : cycLog[i].kind = "STATUS"}) = 1

\* C10: a cycle with a successful reading logs exactly one line that tells the
\* state: the status line, with the latched sensor name, if the state did not
\* change in the cycle, and a HEATING ON / HEATING OFF line instead if it did;
\* a cycle whose reading failed logs only the warning.
C10_OneStateLine ==
  [][ /\ DecideStep =>
           /\ StateLines(cycLog) = {}
           /\ Len(cycLog') = Len(cycLog) + 1
           /\ SubSeq(cycLog', 1, Len(cycLog)) = cycLog
           /\ LET l == cycLog'[Len(cycLog')] IN
              IF currently_heating' = currently_heating
              THEN l.kind = "STATUS" /\ l.sensor = sensor_name
                     /\ l.state = StateWord(currently_heating')
              ELSE l.kind = (IF currently_heating' THEN "ON" ELSE "OFF")
      /\ SkipStep => cycLog' = << Line("WARNING", "-", FALSE, "-") >> ]_vars

\* C10 witness: a cycle that turned heating on ended with a HEATING ON line
\* and no status line.
C10_Witness ==
  /\ CycleEnd /\ temp.ok /\ currently_heating
  /\ Len(cycLog) > 0 /\ LastLine.kind = "ON"
  /\ \A i \in 1 .. Len(cycLog) : cycLog[i].kind # "STATUS"

\* ------------------------------------------------------------ estimator

\* What a call does to the object and to the file, how it ends ("ok" or the
\* exception it raises) and what it returns.
Outcome(e, d, status, out) ==
  [est |-> e, disk |-> d, status |-> status, out |-> out]

\* data.get(key, default)
Get(rec, key, default) == IF rec[key] = Missing THEN default ELSE rec[key]

\* load_calibration(): False for no file; json.load, whose JSONDecodeError is
\* caught (False again); then data.get for each attribute, which raises
\* AttributeError, not caught, when the JSON value is not an object; returns
\* self.calibrated
load_calibration(e, d) ==
  IF d.kind \in {"absent", "invalid"}
  THEN Outcome(e, d, "ok", << Bool(FALSE) >>)
  ELSE IF d.kind = "nonobject"
  THEN Outcome(e, d, "AttributeError", << >>)
  ELSE LET n == [R_th |-> Get(d.rec, "R_th", None),
                 b |-> Get(d.rec, "b", None),
                 sigma |-> Get(d.rec, "sigma", I(3)),
                 calibrated |-> Get(d.rec, "calibrated", Bool(FALSE)),
                 calibration_time |-> Get(d.rec, "calibration_time", None),
                 n_samples |-> Get(d.rec, "n_samples", I(0)),
                 tau |-> Get(d.rec, "tau", None)]
       IN Outcome(n, d, "ok", << n.calibrated >>)

\* mutant: the record is written without tau
save_calibration_noTau(e) == Disk("object", [e EXCEPT !.tau = None])

\* save_calibration(): json.dump of the seven attributes
save_calibration(e) == Disk("object", e)

\* self.b * 0.9 + (P * self.R_th) * 0.1
Smooth(e, P) == QAdd(QMul(e.b, Q(9, 10)), QMul(QMul(P, e.R_th), Q(1, 10)))

\* if P < 0: raise ValueError("Power cannot be negative")
BadPower(P) == QLt(P, I(0))

\* mutant: estimate() applies and persists the cold-start smoothing itself
estimate_smoothing(e, d, T, P) ==
  IF ~Truthy(e.calibrated)
  THEN Outcome(e, d, "NotCalibrated", << >>)
  ELSE IF IsNaN(T) \/ IsNaN(P) \/ BadPower(P)
  THEN Outcome(e, d, "InvalidInput", << >>)
  ELSE IF ~IsNum(e.R_th) \/ ~IsNum(e.b)
  THEN Outcome(e, d, "TypeError", << >>)
  ELSE LET n == [e EXCEPT !.b = Smooth(e, P)]
       IN Outcome(n, save_calibration(n), "ok",
                  << QSub(T, QAdd(QMul(P, n.R_th), n.b)), n.sigma >>)

\* estimate(T_cpu, P): "if not self.calibrated" first, then the checks of the
\* arguments, then T_cpu - (P * R_th + b), where Python raises TypeError for
\* arithmetic on None
estimate(e, d, T, P) ==
  IF ~Truthy(e.calibrated)
  THEN Outcome(e, d, "NotCalibrated", << >>)
  ELSE IF IsNaN(T) \/ IsNaN(P) \/ BadPower(P)
  THEN Outcome(e, d, "InvalidInput", << >>)
  ELSE IF ~IsNum(e.R_th) \/ ~IsNum(e.b)
  THEN Outcome(e, d, "TypeError", << >>)
  ELSE Outcome(e, d, "ok",
               << QSub(T, QAdd(QMul(P, e.R_th), e.b)), e.sigma >>)

\* uptime_seconds < 60 and P < 5 (a comparison with NaN is False)
ColdStart(P, uptime) ==
  /\ IsNum(uptime) /\ QLt(uptime, I(60))
  /\ IsNum(P) /\ QLt(P, I(5))

\* estimate_with_cold_start_correction(T_cpu, P, uptime_seconds): under
\* ColdStart the bias is smoothed and saved before estimate() is called, so
\* before any check of calibrated or of the arguments; P * None and
\* None * 0.9 raise TypeError
estimate_with_cold_start_correction(e, d, T, P, uptime) ==
  IF ColdStart(P, uptime)
  THEN IF ~IsNum(e.R_th) \/ ~IsNum(e.b)
       THEN Outcome(e, d, "TypeError", << >>)
       ELSE LET n == [e EXCEPT !.b = Smooth(e, P)]
            IN estimate(n, save_calibration(n), T, P)
  ELSE estimate(e, d, T, P)

\* "import numpy as np" succeeded (requirements.txt installs NumPy)
NUMPY_AVAILABLE == TRUE

RECURSIVE QSum(_)
QSum(s) == IF s = << >> THEN I(0) ELSE QAdd(Head(s), QSum(Tail(s)))

QMean(s) == QDiv(QSum(s), I(Len(s)))

\* the integer square root
ISqrt(n) == CHOOSE r \in 0 .. n : r * r <= n /\ n < (r + 1) * (r + 1)

\* The square root of a rational: exact for the square of a rational, which
\* the residual variances of the sample sets of this model are.
QSqrt(q) == Q(ISqrt(q.n), ISqrt(q.d))

\* np.std(v): the population standard deviation
Std(v) ==
  LET m == QMean(v)
  IN QSqrt(QMean([i \in 1 .. Len(v) |->
                    QMul(QSub(v[i], m), QSub(v[i], m))]))

\* mutant: the regression has no intercept column
Lstsq_origin(x, y) ==
  [slope |-> QDiv(QSum([i \in 1 .. Len(x) |-> QMul(x[i], y[i])]),
                  QSum([i \in 1 .. Len(x) |-> QMul(x[i], x[i])])),
   intercept |-> I(0)]

\* np.linalg.lstsq([x, 1], y) and np.polyfit(x, y, 1): the least-squares
\* line through the points; when all x are equal the matrix has rank 1 and
\* lstsq returns the solution of least norm.
Lstsq(x, y) ==
  LET n == I(Len(x))
      Sx == QSum(x)
      Sy == QSum(y)
      Sxx == QSum([i \in 1 .. Len(x) |-> QMul(x[i], x[i])])
      Sxy == QSum([i \in 1 .. Len(x) |-> QMul(x[i], y[i])])
      det == QSub(QMul(n, Sxx), QMul(Sx, Sx))
  IN IF det.n # 0
     THEN LET m == QDiv(QSub(QMul(n, Sxy), QMul(Sx, Sy)), det)
          IN [slope |-> m, intercept |-> QDiv(QSub(Sy, QMul(m, Sx)), n)]
     ELSE LET p == x[1]
              c == QDiv(QMean(y), QAdd(QMul(p, p), I(1)))
          IN [slope |-> QMul(c, p), intercept |-> c]

\* the regression of calibrate(): delta_T = T_cpu - T_amb against [P, 1],
\* sigma = np.std(errors), R^2 = 1 - ss_res / ss_tot (0.0 when ss_tot is 0)
Regress(samples) ==
  LET idx == 1 .. Len(samples)
      P == [i \in idx |-> samples[i][2]]
      delta_T == [i \in idx |-> QSub(samples[i][1], samples[i][3])]
      fit == Lstsq(P, delta_T)
      errors == [i \in idx |->
                   QSub(delta_T[i],
                        QAdd(QMul(fit.slope, P[i]), fit.intercept))]
      ss_res == QSum([i \in idx |-> QMul(errors[i], errors[i])])
      dev == [i \in idx |-> QSub(delta_T[i], QMean(delta_T))]
      ss_tot == QSum([i \in idx |-> QMul(dev[i], dev[i])])
  IN [R_th |-> fit.slope, b |-> fit.intercept, sigma |-> Std(errors),
      r_squared |-> IF QLt(I(0), ss_tot)
                    THEN QSub(I(1), QDiv(ss_res, ss_tot)) ELSE I(0)]

\* mutant: two samples are enough
TooFew_two(samples) == Len(samples) < 2

\* if len(samples) < 3: raise ValueError
TooFew(samples) == Len(samples) < 3

\* np.any(np.isnan(T_cpu)) or np.any(np.isnan(P)) or np.any(np.isnan(T_amb))
AnyNaN(samples) ==
  \E i \in 1 .. Len(samples) : \E j \in 1 .. 3 : IsNaN(samples[i][j])

\* np.any(P <= 0)
AnyNonPositive(samples) ==
  \E i \in 1 .. Len(samples) : QLe(samples[i][2], I(0))

\* calibrate(samples), a sample being (T_cpu, P, T_amb): the three checks,
\* the regression (fit), the metadata (now: what datetime.now() returns),
\* save_calibration()
calibrate(e, d, samples, fit, now) ==
  IF ~NUMPY_AVAILABLE
  THEN Outcome(e, d, "ImportError", << >>)
  ELSE IF TooFew(samples) \/ AnyNaN(samples) \/ AnyNonPositive(samples)
  THEN Outcome(e, d, "InvalidInput", << >>)
  ELSE LET n == [R_th |-> fit[samples].R_th, b |-> fit[samples].b,
                 sigma |-> fit[samples].sigma,
                 calibrated |-> Bool(TRUE), calibration_time |-> now,
                 n_samples |-> I(Len(samples)), tau |-> e.tau]
       IN Outcome(n, save_calibration(n), "ok",
                  << n.R_th, n.b, n.sigma, fit[samples].r_squared,
                     n.n_samples, now >>)

\* The logarithm, in units of ln 2, of a power of two; the cooldown series of
\* this model lie powers of two above the measured ambient.
Log2(q) == CHOOSE k \in 0 .. q.n : 2 ^ k = q.n /\ q.d = 1

\* the fit of fit_cooldown_curve(): t normalised to start at 0, the line
\* through (t, ln(T - T_amb_measured)), tau = -1.0 / slope. With logarithms
\* counted in units of ln 2, tau is counted in units of 1 / ln 2.
FitTau(series, T_amb) ==
  LET idx == 1 .. Len(series)
      t == [i \in idx |-> QSub(series[i][1], series[1][1])]
      y == [i \in idx |-> I(Log2(QSub(series[i][2], T_amb)))]
  IN QDiv(I(-1), Lstsq(t, y).slope)

\* mutant: four points are enough
TooShort_four(series) == Len(series) < 4

\* if len(time_series) < 5: raise ValueError
TooShort(series) == Len(series) < 5

\* np.any(T <= T_amb_measured)
AnyAtAmbient(series, T_amb) ==
  \E i \in 1 .. Len(series) : QLe(series[i][2], T_amb)

\* fit_cooldown_curve(time_series, T_amb_measured), a point being (t, T): the
\* two checks, then self.tau (fit: the fitted tau of each run). Nothing is
\* saved.
fit_cooldown_curve(e, d, series, T_amb, fit) ==
  IF ~NUMPY_AVAILABLE
  THEN Outcome(e, d, "ImportError", << >>)
  ELSE IF TooShort(series) \/ AnyAtAmbient(series, T_amb)
  THEN Outcome(e, d, "InvalidInput", << >>)
  ELSE Outcome([e EXCEPT !.tau = fit[<< series, T_amb >>]], d, "ok",
               << fit[<< series, T_amb >>] >>)

\* ------------------------------------------------------------ estimator runs

\* the number of updates of the model (calibrations, cold-start corrections)
\* that a run makes
MaxUpdates == 3

\* Calibration files found at construction: none, not JSON, a JSON list, {},
\* {"calibrated": true}, a record without n_samples, sigma and the rest, a
\* record written by save_calibration() in an earlier run, and that record
\* with "calibrated": false.
SavedRecord ==
  [R_th |-> I(2), b |-> I(10), sigma |-> I(1), calibrated |-> Bool(TRUE),
   calibration_time |-> I(0), n_samples |-> I(4), tau |-> None]

DiskContents ==
  { AbsentFile,
    Disk("invalid", NoRecord),
    Disk("nonobject", NoRecord),
    Disk("object", NoRecord),
    Disk("object", [NoRecord EXCEPT !.calibrated = Bool(TRUE)]),
    Disk("object", [NoRecord EXCEPT !.calibrated = Bool(TRUE),
                                    !.R_th = I(2), !.b = I(10)]),
    Disk("object", SavedRecord),
    Disk("object", [SavedRecord EXCEPT !.calibrated = Bool(FALSE)]) }

Sample(T_cpu, P, T_amb) == << T_cpu, P, T_amb >>

\* T_cpu = T_amb + 2 P + 10 without noise
ExactSamples ==
  << Sample(I(40), I(5), I(20)), Sample(I(50), I(10), I(20)),
     Sample(I(60), I(15), I(20)) >>

\* T_cpu = T_amb + 3 P + 5 with the noise +1, -1, -1, +1
NoisySamples ==
  << Sample(I(29), I(1), I(20)), Sample(I(30), I(2), I(20)),
     Sample(I(33), I(3), I(20)), Sample(I(38), I(4), I(20)) >>

\* T_cpu = T_amb + 2 P + 10 without noise, every sample at the same power
SamePowerSamples ==
  << Sample(I(40), I(5), I(20)), Sample(I(45), I(5), I(25)),
     Sample(I(35), I(5), I(15)) >>

\* T_cpu = T_amb + 0 P + 10 without noise
FlatSamples ==
  << Sample(I(30), I(5), I(20)), Sample(I(30), I(10), I(20)),
     Sample(I(30), I(15), I(20)) >>

SampleSets ==
  { ExactSamples,
    NoisySamples,
    SamePowerSamples,
    FlatSamples,
    SubSeq(ExactSamples, 1, 2),
    [ExactSamples EXCEPT ![2] = Sample(I(50), I(10), NaN)],
    [ExactSamples EXCEPT ![1] = Sample(I(30), I(0), I(20))] }

Temps == {NaN, I(50)}

Powers == {NaN, I(-1), I(0), I(10)}

Uptimes == {I(30), I(60)}

\* T = 20 + 16 * 2^-(t - 10), sampled once a second
Cooldown == << << I(10), I(36) >>, << I(11), I(28) >>, << I(12), I(24) >>,
               << I(13), I(22) >>, << I(14), I(21) >> >>

\* the same temperatures two seconds apart
SlowCooldown == [i \in 1 .. 5 |-> << I(2 * i), Cooldown[i][2] >>]

\* time series with the measured ambient: two decays to 20, four points only,
\* a series that reaches the ambient
CooldownRuns ==
  { << Cooldown, I(20) >>,
    << SlowCooldown, I(20) >>,
    << SubSeq(Cooldown, 1, 4), I(20) >>,
    << [Cooldown EXCEPT ![5] = << I(14), I(20) >>], I(20) >> }

\* The regression of every sample set that calibrate() accepts, and the fitted
\* tau of every cooldown run that fit_cooldown_curve() accepts.
Regressions ==
  [s \in {x \in SampleSets :
             ~TooFew(x) /\ ~AnyNaN(x) /\ ~AnyNonPositive(x)} |-> Regress(s)]

CooldownFits ==
  [r \in {x \in CooldownRuns :
             ~TooShort(x[1]) /\ ~AnyAtAmbient(x[1], x[2])} |->
     FitTau(r[1], r[2])]

\* The state inside __init__ before it calls load_calibration(): the default
\* attributes, whatever file there is; the controller does not run.
InitEst ==
  /\ pc = "spawn"
  /\ currently_heating = FALSE
  /\ heating_active = 0
  /\ sensor_name = Unset
  /\ temp = NoReading
  /\ overrideFile = NoFile
  /\ wpc = [w \in Workers |-> "unstarted"]
  /\ termSent = [w \in Workers |-> FALSE]
  /\ cycLog = << >>
  /\ stopCause = "none"
  /\ workerWrote = FALSE
  /\ lastTrans = "none"
  /\ logTail = Unreadable
  /\ est = Defaults
  /\ disk \in DiskContents
  /\ ret = NoCall
  /\ again = FALSE
  /\ clock = 0

\* the program holds an estimator: a constructor has returned
HasEstimator == ret.op # "none" /\ ~(ret.op = "__init__" /\ ret.status # "ok")

\* One call: the object and the file after it, its outcome, whether it
\* repeats the call before it, and the time, which advances with every
\* update of the model.
Does(op, args, o) ==
  /\ (o.est # est \/ o.disk # disk) /\ op # "__init__" => clock < MaxUpdates
  /\ est' = o.est
  /\ disk' = o.disk
  /\ ret' = Call(op, args, o.status, o.out)
  /\ again' = (ret.op = op /\ ret.args = args)
  /\ clock' = IF (o.est # est \/ o.disk # disk) /\ op # "__init__"
              THEN clock + 1 ELSE clock
  /\ UNCHANGED ctlVars

\* AmbientTempEstimator(config_file): a new object on the same file; when
\* load_calibration() raises there is no object
Construct ==
  \E o \in {load_calibration(Defaults, disk)} : Does("__init__", << >>, o)

Load ==
  /\ HasEstimator
  /\ Does("load_calibration", << >>, load_calibration(est, disk))

Save ==
  /\ HasEstimator
  /\ Does("save_calibration", << >>,
          Outcome(est, save_calibration(est), "ok", << >>))

Calibrate ==
  /\ HasEstimator
  /\ \E s \in SampleSets :
       Does("calibrate", << s >>, calibrate(est, disk, s, Regressions, I(clock + 1)))

Estimate ==
  /\ HasEstimator
  /\ \E T \in Temps, P \in Powers :
       Does("estimate", << T, P >>, estimate(est, disk, T, P))

EstimateColdStart ==
  /\ HasEstimator
  /\ \E T \in Temps, P \in Powers, u \in Uptimes :
       Does("estimate_with_cold_start_correction", << T, P, u >>,
            estimate_with_cold_start_correction(est, disk, T, P, u))

FitCooldown ==
  /\ HasEstimator
  /\ \E r \in CooldownRuns :
       Does("fit_cooldown_curve", r,
            fit_cooldown_curve(est, disk, r[1], r[2], CooldownFits))

NextEst ==
  \/ Construct
  \/ Load
  \/ Save
  \/ Calibrate
  \/ Estimate
  \/ EstimateColdStart
  \/ FitCooldown

SpecEst == InitEst /\ [][NextEst]_vars
\* ------------------------------------------------------------ C11

\* the transition lines a step appends to the log
Logged(kind) ==
  /\ Len(cycLog') > Len(cycLog)
  /\ \E i \in (Len(cycLog) + 1) .. Len(cycLog') : cycLog'[i].kind = kind

\* C11: a step logs "HEATING ON:" exactly when it takes the controller from
\* IDLE to HEATING and "HEATING OFF:" exactly when it takes it from HEATING to
\* IDLE; so an ON line never follows an ON line, and an OFF line always
\* follows an ON line (the first transition line of a run is an ON line).
C11_TransitionLines ==
  [][ /\ Logged("ON") <=> (~currently_heating /\ currently_heating')
      /\ Logged("OFF") <=> (currently_heating /\ ~currently_heating')
      /\ Logged("ON") => lastTrans # "ON" /\ lastTrans' = "ON"
      /\ Logged("OFF") => lastTrans = "ON" /\ lastTrans' = "OFF"
      /\ ~Logged("ON") /\ ~Logged("OFF") => lastTrans' = lastTrans ]_vars

\* a cycle that takes the controller back to IDLE and logs the OFF line that
\* follows the ON line of an earlier cycle
C11_Witness ==
  /\ CycleEnd
  /\ LastLine.kind = "OFF"
  /\ lastTrans = "OFF"
  /\ ~currently_heating

\* ------------------------------------------------------------ C12

\* C12: the status line of a cycle names the controller state at the end of
\* that cycle, and is tagged (OVERRIDE) exactly when the override file read in
\* that cycle held HEATING_ON or HEATING_OFF.
C12_StatusLine ==
  [][ DecideStep /\ cycLog'[Len(cycLog')].kind = "STATUS" =>
        /\ cycLog'[Len(cycLog')].state = StateWord(currently_heating')
        /\ cycLog'[Len(cycLog')].override <=> Ov[1] ]_vars

\* a cycle under override OFF that logs "IDLE (OVERRIDE)"
C12_Witness ==
  /\ CycleEnd
  /\ LastLine = Line("STATUS", "IDLE", TRUE, sensor_name)
  /\ OverrideOff
  /\ ~currently_heating

\* ------------------------------------------------------------ C13

\* C13: every worker is started once, while main() starts the pool; the pool
\* is complete from then on; a worker leaves its loop only in the signal
\* handler, whatever the flag holds; a worker that is gone is never started
\* again.
C13_FixedPool ==
  /\ [](pc \in InLoop => \A w \in Workers : Started(w))
  /\ [][ \A w \in Workers :
           /\ wpc[w] = "unstarted" /\ wpc'[w] # "unstarted" =>
                pc = "spawn" /\ wpc'[w] = "flag"
           /\ wpc[w] # "unstarted" => wpc'[w] # "unstarted"
           /\ wpc[w] = "exited" => wpc'[w] = "exited"
           /\ wpc[w] \in Running => wpc'[w] \in Running \cup {"sig"} ]_vars

\* the controller toggles to HEATING after a worker has died, and the dead
\* worker stays dead
C13_Witness ==
  /\ CycleEnd
  /\ currently_heating
  /\ LastLine.kind = "ON"
  /\ \E w \in Workers : wpc[w] = "exited"

\* ------------------------------------------------------------ C14

\* the step is a call of the method
Calls(op) == ret'.op = op

\* C14: estimate(T_cpu, P) raises the not-calibrated error whenever
\* calibrated is false, whatever the arguments; on a calibrated estimator it
\* raises the validation error when T_cpu or P is NaN or P < 0; in every
\* other case, P = 0 included, it returns (T_cpu - (P * R_th + b), sigma).
C14_EstimateContract ==
  [][ Calls("estimate") =>
        LET T == ret'.args[1]
            P == ret'.args[2]
        IN IF ~Truthy(est.calibrated)
           THEN ret'.status = "NotCalibrated"
           ELSE IF IsNaN(T) \/ IsNaN(P) \/ (IsNum(P) /\ P.n < 0)
           THEN ret'.status = "InvalidInput"
           ELSE /\ ret'.status = "ok"
                /\ ret'.out = << QSub(T, QAdd(QMul(P, est.R_th), est.b)),
                                 est.sigma >> ]_vars

\* ------------------------------------------------------------ C15

\* C15: a call of estimate, whether it returns or raises, leaves every
\* attribute of the estimator and the calibration file as they were, and a
\* call that repeats the call just before it ends the same way with the same
\* result.
C15_EstimatePure ==
  [][ Calls("estimate") =>
        /\ est' = est
        /\ disk' = disk
        /\ again' => ret'.status = ret.status /\ ret'.out = ret.out ]_vars

\* estimate has just returned for the second time in a row on the same
\* arguments, on a calibrated estimator whose file holds the calibration
C15_Witness ==
  /\ ret.op = "estimate"
  /\ again
  /\ ret.status = "ok"
  /\ Truthy(est.calibrated)
  /\ disk = save_calibration(est)

\* ------------------------------------------------------------ C16

\* C16: calibrate raises the validation error for fewer than 3 samples, for a
\* NaN in any sample and for a power <= 0 in any sample, and then leaves every
\* attribute of the estimator and the calibration file as they were.
C16_CalibrateRejects ==
  [][ Calls("calibrate") =>
        LET s == ret'.args[1]
        IN \/ Len(s) < 3
           \/ \E i \in 1 .. Len(s) : \E j \in 1 .. 3 : s[i][j] = NaN
           \/ \E i \in 1 .. Len(s) : s[i][2].n <= 0
           => /\ ret'.status = "InvalidInput"
              /\ est' = est
              /\ disk' = disk ]_vars

\* a calibrated estimator has just rejected a sample set of two samples
C16_Witness ==
  /\ ret.op = "calibrate"
  /\ ret.status = "InvalidInput"
  /\ Len(ret.args[1]) = 2
  /\ Truthy(est.calibrated)
  /\ est.n_samples = I(4)
  /\ disk = save_calibration(est)

\* ------------------------------------------------------------ C17

\* C17: whenever the estimator is calibrated, R_th and b are numbers and
\* n_samples is at least 3.
C17_CalibratedHasModel ==
  HasEstimator /\ Truthy(est.calibrated) =>
    /\ IsNum(est.R_th)
    /\ IsNum(est.b)
    /\ IsNum(est.n_samples) /\ est.n_samples.n >= 3 * est.n_samples.d

\* ------------------------------------------------------------ C18

\* the file is not JSON, is JSON but not an object, or lacks a key
Malformed(d) ==
  \/ d.kind \in {"invalid", "nonobject"}
  \/ d.kind = "object" /\ \E key \in DOMAIN d.rec : d.rec[key] = Missing

\* C18: load_calibration on a malformed or partial file does not raise,
\* returns False and leaves the estimator not calibrated.
C18_MalformedLoads ==
  [][ (Calls("__init__") \/ Calls("load_calibration")) /\ Malformed(disk) =>
        /\ ret'.status = "ok"
        /\ ret'.out = << Bool(FALSE) >>
        /\ ~Truthy(est'.calibrated) ]_vars

\* ------------------------------------------------------------ C19

\* C19: after fit_cooldown_curve has returned, the calibration file is a
\* record that holds the fitted tau, its other keys as they were.
C19_TauPersisted ==
  [][ Calls("fit_cooldown_curve") /\ ret'.status = "ok" =>
        /\ disk'.kind = "object"
        /\ disk'.rec.tau = est'.tau
        /\ disk'.rec = [disk.rec EXCEPT !.tau = est'.tau] ]_vars

\* ------------------------------------------------------------ C20

\* C20: fit_cooldown_curve raises the validation error for fewer than 5
\* points and for a temperature at or below the measured ambient, and then
\* leaves tau, every other attribute and the calibration file as they were.
C20_CooldownRejects ==
  [][ Calls("fit_cooldown_curve") =>
        LET series == ret'.args[1]
            T_amb == ret'.args[2]
        IN \/ Len(series) < 5
           \/ \E i \in 1 .. Len(series) : QLe(series[i][2], T_amb)
           => /\ ret'.status = "InvalidInput"
              /\ est' = est
              /\ disk' = disk ]_vars

\* an estimator that holds a fitted tau has just rejected a series that
\* reaches the measured ambient
C20_Witness ==
  /\ ret.op = "fit_cooldown_curve"
  /\ ret.status = "InvalidInput"
  /\ Len(ret.args[1]) = 5
  /\ IsNum(est.tau)

\* ------------------------------------------------------------ C21

\* C21: estimate_with_cold_start_correction on a calibrated estimator: with
\* uptime_seconds < 60 and P < 5 it replaces b by 0.9 b + 0.1 (P R_th), saves
\* the adjusted model, and what it returns is computed with the new b;
\* otherwise it leaves the model and the file as they were and ends as
\* estimate(T_cpu, P) does.
C21_ColdStartSmooths ==
  [][ Calls("estimate_with_cold_start_correction")
      /\ Truthy(est.calibrated) =>
        LET T == ret'.args[1]
            P == ret'.args[2]
            u == ret'.args[3]
            b9 == QAdd(QMul(est.b, Q(9, 10)),
                       QMul(QMul(P, est.R_th), Q(1, 10)))
        IN IF IsNum(u) /\ u.n < 60 * u.d /\ IsNum(P) /\ P.n < 5 * P.d
           THEN /\ est' = [est EXCEPT !.b = b9]
                /\ disk' = Disk("object", est')
                /\ ret'.status = "ok" =>
                     ret'.out = << QSub(T, QAdd(QMul(P, est.R_th), b9)),
                                   est.sigma >>
           ELSE /\ est' = est
                /\ disk' = disk
                /\ ret'.status = estimate(est, disk, T, P).status
                /\ ret'.out = estimate(est, disk, T, P).out ]_vars

\* ------------------------------------------------------------ C28

\* C28: a call of estimate_with_cold_start_correction that raises the
\* not-calibrated error or the validation error leaves every attribute of the
\* estimator and the calibration file as they were.
C28_ColdStartFailureKeeps ==
  [][ Calls("estimate_with_cold_start_correction")
      /\ ret'.status \in {"NotCalibrated", "InvalidInput"} =>
        est' = est /\ disk' = disk ]_vars

\* ------------------------------------------------------------ C22

\* linear thermal models (R_th*, b*) that generate samples
Models ==
  { [R_th |-> I(2), b |-> I(10)], [R_th |-> I(0), b |-> I(10)],
    [R_th |-> I(3), b |-> I(5)] }

\* every sample satisfies T_cpu - T_amb = P R_th* + b* exactly, with P > 0
Generated(s, m) ==
  \A i \in 1 .. Len(s) :
    /\ IsNum(s[i][1]) /\ IsNum(s[i][2]) /\ IsNum(s[i][3])
    /\ s[i][2].n > 0
    /\ QSub(s[i][1], s[i][3]) = QAdd(QMul(s[i][2], m.R_th), m.b)

\* after the call, estimate on every sample of s gives that sample's T_amb
Reproduces(s) ==
  \A i \in 1 .. Len(s) :
    QSub(s[i][1], QAdd(QMul(s[i][2], est'.R_th), est'.b)) = s[i][3]

C26_CalibrationRoundTrip ==
  [][ /\ Calls("calibrate") /\ ret'.status = "ok" =>
           /\ est'.calibrated = Bool(TRUE)
           /\ est'.n_samples = I(Len(ret'.args[1]))
      /\ ret.op = "calibrate" /\ ret.status = "ok" /\ Calls("__init__") =>
           /\ ret'.status = "ok"
           /\ ret'.out = << Bool(TRUE) >>
           /\ \A f \in {"R_th", "b", "sigma", "calibrated",
                        "calibration_time", "n_samples", "tau"} :
                est'[f] = est[f] ]_vars

\* an estimator has just been constructed on the file that a calibration of
\* this run wrote, and holds its parameters and the tau fitted before it
C26_Witness ==
  /\ ret.op = "__init__"
  /\ ret.status = "ok"
  /\ est.calibrated = Bool(TRUE)
  /\ clock > 0 /\ est.calibration_time = I(clock)
  /\ est.n_samples = I(3)
  /\ IsNum(est.tau)

\* ------------------------------------------------------------ C23

\* the scanned zones that are typed ACPI and whose temperature can be read
AcpiIdx(z) ==
  {i \in FallbackIdx(z) :
     ZoneAt(z, i).type # NoType /\ HasAcpi(ZoneAt(z, i).type)}

\* C23: whenever the controller holds a fresh reading, then for every machine
\* that gives this reading: it is the reading of a readable zone typed ACPI
\* if there is one among the scanned zones; without one it is the coldest of
\* the zones that parse; and there is no reading exactly when no zone parses.
C23_SensorPolicy ==
  pc \in {"check", "sleep"} =>
    \A z \in ZoneConfigs :
      get_ambient_temp(z) = temp =>
        /\ temp.ok <=> FallbackIdx(z) # {}
        /\ AcpiIdx(z) # {} =>
             \E i \in AcpiIdx(z) : temp.milli = ZoneAt(z, i).milli
        /\ AcpiIdx(z) = {} /\ FallbackIdx(z) # {} =>
             \A j \in FallbackIdx(z) : temp.milli <= ZoneAt(z, j).milli

\* ------------------------------------------------------------ C29

\* C29: sensor_name, once set, never changes; it is set by the first
\* successful reading of the loop, to the sensor of that reading, and by
\* nothing else; and the status line of every cycle prints it.
C29_SensorLatch ==
  [][ /\ sensor_name # Unset => sensor_name' = sensor_name
      /\ sensor_name = Unset /\ sensor_name' # Unset =>
           pc = "read" /\ temp'.ok /\ sensor_name' = temp'.sensor
      /\ sensor_name = Unset /\ pc = "read" /\ pc' = "check" =>
           sensor_name' = temp'.sensor
      /\ DecideStep /\ cycLog'[Len(cycLog')].kind = "STATUS" =>
           /\ sensor_name' # Unset
           /\ cycLog'[Len(cycLog')].sensor = sensor_name' ]_vars

\* a cycle whose reading came from another sensor than the latched one has
\* logged its status line with the latched name
C29_Witness ==
  /\ CycleEnd
  /\ temp.ok
  /\ temp.sensor # sensor_name
  /\ LastLine.kind = "STATUS"
  /\ LastLine.sensor = sensor_name

\* ------------------------------------------------------------ C25

\* C25: a cycle that finds no override file decides the state from the state
\* it began in and its own reading alone, by the hysteresis rule, and logs no
\* override line, whatever the override file held in earlier cycles; so a
\* HEATING controller stays HEATING inside the dead band and turns IDLE at a
\* reading >= TEMP_TARGET.
C25_OverrideNotCached ==
  [][ DecideStep /\ overrideFile = NoFile =>
        /\ currently_heating' =
             (temp.milli < TEMP_MIN_C * 1000
                \/ (currently_heating /\ temp.milli < TEMP_TARGET_C * 1000))
        /\ ~cycLog'[Len(cycLog')].override ]_vars

\* a cycle without override file has read TEMP_TARGET or more and has taken
\* the controller from HEATING to IDLE
C25_Witness ==
  /\ CycleEnd
  /\ overrideFile = NoFile
  /\ temp.ok /\ temp.milli >= TEMP_TARGET_C * 1000
  /\ LastLine.kind = "OFF"
  /\ ~LastLine.override
  /\ ~currently_heating

\* ------------------------------------------------------------ C27

\* the file is absent, unreadable, or holds neither command
NoCommand(f) ==
  \A i \in 1 .. Len(f) : f[i] \notin {"HEATING_ON", "HEATING_OFF"}

\* C27: a cycle whose override file is absent, unreadable, empty or holds
\* a truncated command goes on to its decision, which is the one the
\* hysteresis rule makes, with the flag written on a change of state only,
\* and logs a line without OVERRIDE.
C27_NoCommandNoOverride ==
  [][ pc = "check" /\ pc' \in InLoop \ {"check"}
        /\ NoCommand(overrideFile) =>
        /\ pc' = "sleep"
        /\ currently_heating' =
             (IF temp.milli < TEMP_MIN_C * 1000 THEN TRUE
              ELSE IF temp.milli < TEMP_TARGET_C * 1000
                   THEN currently_heating ELSE FALSE)
        /\ heating_active' =
             (IF currently_heating' = currently_heating THEN heating_active
              ELSE IF currently_heating' THEN 1 ELSE 0)
        /\ ~cycLog'[Len(cycLog')].override
        /\ check_manual_override(overrideFile) = << FALSE, FALSE >> ]_vars

\* a cycle that found a truncated command in the override file has started
\* heating by the temperature rule
C27_Witness ==
  /\ CycleEnd
  /\ overrideFile = << "HEATING_" >>
  /\ LastLine.kind = "ON"
  /\ ~LastLine.override
  /\ currently_heating
  /\ temp.milli < TEMP_MIN_C * 1000

\* ------------------------------------------------------------ C24

\* A worker process that is not stopped by a signal keeps running: the
\* operating system schedules it, its busy loop ends after work_time and its
\* sleeps return.
WorkerFairness ==
  \A w \in Workers : /\ WF_vars(WorkerReadFlag(w))
                     /\ WF_vars(WorkerWorkDone(w))
                     /\ WF_vars(WorkerWake(w))

\* The controller and its workers with the override file left as it is at
\* start (absent): the file only selects which of the two values Decide
\* writes to the flag, and Decide writes both values without it.
NextLive ==
  \/ StartWorker
  \/ SpawnDone
  \/ EnterLoop
  \/ ReadSensor
  \/ Decide
  \/ Sleep
  \/ RaiseError
  \/ ExceptClause
  \/ SignalMain
  \/ HandlerExit
  \/ FinallyClear
  \/ TerminateWorker
  \/ FinallyLog
  \/ AtExitTerminate
  \/ AtExitJoin
  \/ \E w \in Workers :
       \/ WorkerReadFlag(w)
       \/ WorkerWorkDone(w)
       \/ WorkerWake(w)
       \/ SignalWorker(w)
       \/ WorkerHandler(w)

SpecLive == Init /\ [][NextLive]_vars /\ WorkerFairness

\* C24: after the flag is set off and stays off every worker eventually stops
\* computing and from then on only idles; after the flag is set on and stays
\* on every live worker computes again and again; a worker starts a busy
\* period only from its reading of the flag, and only when the flag it reads
\* is on.
C24_WorkersFollowFlag ==
  /\ \A w \in Workers :
       <>[](heating_active = 0) => <>[](wpc[w] # "busy")
  /\ \A w \in Workers :
       <>[](heating_active # 0 /\ wpc[w] \in Running)
         => []<>(wpc[w] = "busy")
  /\ [][ \A w \in Workers :
           wpc[w] # "busy" /\ wpc'[w] = "busy" =>
             wpc[w] = "flag" /\ heating_active # 0 ]_vars

\* the controller has switched heating off while a worker is still inside
\* the work period it began under the flag on
C24_Witness ==
  /\ lastTrans = "OFF"
  /\ heating_active = 0
  /\ pc \in InLoop
  /\ \E w \in Workers : wpc[w] = "busy"

\* ------------------------------------------------------------ C30

\* a fresh log file that the dashboard can read
InitLog ==
  /\ pc = "spawn"
  /\ currently_heating = FALSE
  /\ heating_active = 0
  /\ sensor_name = Unset
  /\ temp = NoReading
  /\ overrideFile = NoFile
  /\ wpc = [w \in Workers |-> "unstarted"]
  /\ termSent = [w \in Workers |-> FALSE]
  /\ cycLog = << >>
  /\ stopCause = "none"
  /\ workerWrote = FALSE
  /\ lastTrans = "none"
  /\ logTail = NoTelling
  /\ est = Defaults
  /\ disk = AbsentFile
  /\ ret = NoCall
  /\ again = FALSE
  /\ clock = 0

\* the controller's cycles and the writer of the override file
NextLog ==
  \/ StartWorker
  \/ SpawnDone
  \/ EnterLoop
  \/ ReadSensor
  \/ Decide
  \/ Sleep
  \/ WriteOverride

SpecLog == InitLog /\ [][NextLog]_vars

\* C30: once a cycle has logged the state, the status the dashboard derives
\* from the last TAIL_LINES lines of the log at the end of a cycle is the
\* controller's state, HEATING or IDLE.
C30_DashboardAgrees ==
  (CycleEnd /\ logTail # Unreadable /\ sensor_name # Unset) =>
    get_status(logTail, cycLog) = StateWord(currently_heating)


=============================================================================
